---------------------------- MODULE Spec2Model ----------------------------
(***************************************************************************)
(* A model of the DB analysis MCP server:                                  *)
(*   - the asynchronous connection-pool registry                           *)
(*     (src/db_mcp/connection_pool.py),                                    *)
(*   - the Plan-Execute-Replan controller                                   *)
(*     (src/agent/data_analyst_agent.py),                                  *)
(*   - the transport middleware, the data_agent dispatcher and the         *)
(*     telemetry recorder (src/db_mcp/server.py, src/db_mcp/tool.py,        *)
(*     src/db/analytics_config.py, src/db/analytics_service.py).            *)
(*   - the cache of the db_mapping table (src/db_mcp/server.py,            *)
(*     src/db/database.py),                                                *)
(*   - the SQL validator and the tools of the sub-agent                    *)
(*     (src/db_mcp/sql_validator.py, src/tools, src/db_mcp/errors.py).     *)
(* Each part has its own specification (SpecPool, SpecAgent, SpecServer,   *)
(* SpecMapping, SpecTools), which leaves the variables of the other parts  *)
(* unchanged.                                                              *)
(***************************************************************************)
EXTENDS Naturals, Integers, Sequences, FiniteSets, Bags, TLC

VARIABLES
    \* ---- connection_pool.py ----
    pools,        \* _pools: insertion-ordered dict, a sequence of entries
    lock,         \* _pools_lock: the task holding it, or NoTask
    now,          \* the wall clock read by time.time()
    engines,      \* the number of AsyncEngines created so far (identities 1..engines)
    tpc,          \* where each task stands in its registry operation
    targ,         \* the arguments of each task's current operation
    eng,          \* the engine get_engine returned to each task, or NoEngine
    todo,         \* _evict_old_pools: the keys still to close, per task
    lru,          \* history: whether the run so far is the LRU scenario
    \* ---- data_analyst_agent.py: one run of run_agent ----
    apc,          \* the node the graph runs next, END, or "returned"
    plan,         \* state["plan"]
    step_index,   \* state["step_index"]
    past_steps,   \* state["past_steps"]: the task of every step executed
    response,     \* state["response"], Unset while the key is absent
    error_log,    \* state["error_log"]: the origin of every error logged
    steps,        \* the number of nodes the graph has run
    execCalls,    \* history: the number of executor invocations
    llmCalls,     \* history: the replanner's LLM calls, and whether every
                  \* one of them returned a plan of one step
    answer,       \* the string run_agent returned
    \* ---- server.py, tool.py, analytics_config.py ----
    _current_db_key,      \* server.py's module global
    _current_db_config,   \* server.py's module global
    _db_mapping,          \* the cache of the db_mapping table: its keys
    ANALYTICS_ENABLED,    \* the recorder's switch, read from the environment
    conns,                \* the /sse connections: open, client_ip, ?db=
    sessions,             \* the UserSessionLog rows
    req,                  \* the data_agent invocation of each connection
    next_request,         \* the request ids generated so far
    tool_call_log,        \* the ToolCallLog rows: a bag of request ids
    agent_execution_log,  \* the AgentExecutionLog rows: a bag of records
    \* ---- the db_mapping table and the callers of get_db_config ----
    db_mapping_table,     \* the names of the rows with is_active = True
    got,                  \* the get_db_config call observed: name and result
    \* ---- src/tools: one call of a tool of the sub-agent ----
    sql,                  \* the argument sql (or query): a text, as chunks
    limit,                \* the argument limit
    sql_host,             \* the host passed or found in the context, "" when none
    qpc,                  \* "called", "querying" (execute_query awaited), "returned"
    sent,                 \* the text passed to execute_query, <<>> before that
    envelope,             \* the string returned, as its decoded fields
    emitted               \* the ToolCallLog and SQLQueryLog rows the call wrote

poolVars == <<pools, lock, now, engines, tpc, targ, eng, todo, lru>>

agentVars == <<apc, plan, step_index, past_steps, response, error_log, steps,
               execCalls, llmCalls, answer>>

serverVars == <<_current_db_key, _current_db_config, _db_mapping,
                ANALYTICS_ENABLED, conns, sessions, req, next_request,
                tool_call_log, agent_execution_log>>

mappingVars == <<db_mapping_table, got>>

sqlVars == <<sql, limit, sql_host, qpc, sent, envelope, emitted>>

vars == <<poolVars, agentVars, serverVars, mappingVars, sqlVars>>

(***************************************************************************)
(*                    THE CONNECTION-POOL REGISTRY                         *)
(***************************************************************************)

\* The registry's cap on the number of pools, read from the environment
\* (DB_POOL_MAX_SIZE, default 50); the model runs a small configuration.
DB_POOL_MAX_SIZE == 2

\* The clock stops advancing at MaxTime; at most MaxEngines engines are created.
MaxTime == 2
MaxEngines == 3

Tasks == {"t1", "t2"}
NoTask == "none"

Hosts == {"h1", "h2", "h3"}
Databases == {"a"}
Passwords == {"p1", "p2"}

\* The destinations callers ask for: (host, port, username, database).
Dests == [host : Hosts, port : {3306}, username : {"u"}, database : Databases]

NoDest == [host |-> "h1", port |-> 3306, username |-> "u", database |-> "a"]

\* _make_pool_key: f"{host}:{port}@{username}@{database}"
_make_pool_key(host, port, username, database) ==
    host \o ":" \o ToString(port) \o "@" \o username \o "@" \o database

\* A key that also depends on the password (what the registry must not do).
PoolKeyWithPassword(d, password) ==
    _make_pool_key(d.host, d.port, d.username \o ":" \o password, d.database)

\* get_engine's first line: the key is computed from the destination alone,
\* the password the caller passes is not used.
PoolKeyOf(d, password) ==
    _make_pool_key(d.host, d.port, d.username, d.database)

\* The index of key k in _pools, 0 when it is absent (k in _pools).
KeyIndex(ps, k) ==
    IF \E i \in 1..Len(ps) : ps[i].key = k
    THEN CHOOSE i \in 1..Len(ps) : ps[i].key = k
    ELSE 0

\* del _pools[k]
RemoveKey(ps, k) ==
    LET i == KeyIndex(ps, k)
    IN  IF i = 0 THEN ps
        ELSE SubSeq(ps, 1, i - 1) \o SubSeq(ps, i + 1, Len(ps))

\* sorted(_pools.items(), key=last_used): Python's sort is stable, entries
\* with equal last_used keep the dict's insertion order.
RECURSIVE SortedByLastUsed(_)
SortedByLastUsed(ps) ==
    IF ps = <<>> THEN <<>>
    ELSE LET m == CHOOSE i \in 1..Len(ps) :
                      /\ \A j \in 1..Len(ps) : ps[i].last_used <= ps[j].last_used
                      /\ \A j \in 1..(i - 1) : ps[j].last_used > ps[i].last_used
         IN  <<ps[m]>> \o
             SortedByLastUsed(SubSeq(ps, 1, m - 1) \o SubSeq(ps, m + 1, Len(ps)))

\* _evict_old_pools: the keys of sorted_pools[:to_close].
EvictTargets(ps) ==
    LET sorted_pools == SortedByLastUsed(ps)
        to_close == Len(ps) - DB_POOL_MAX_SIZE
    IN  [i \in 1..to_close |-> sorted_pools[i].key]

\* time.time(): the clock as it stands, or advanced by one tick.
TimeRead == {now} \cup (IF now < MaxTime THEN {now + 1} ELSE {})

NoArgs == [dest |-> NoDest, password |-> "p1"]

NoEngine == [id |-> 0, dest |-> NoDest]

AllIdle == \A t \in Tasks : tpc[t] = "idle"

InitPool ==
    /\ pools = <<>>
    /\ lock = NoTask
    /\ now = 0
    /\ engines = 0
    /\ tpc = [t \in Tasks |-> "idle"]
    /\ targ = [t \in Tasks |-> NoArgs]
    /\ eng = [t \in Tasks |-> NoEngine]
    /\ todo = [t \in Tasks |-> <<>>]
    /\ lru = [ok |-> TRUE, touched |-> TRUE, created |-> <<>>]

\* _pools[k]["last_used"] = time.time()
Touch(ps, k, tm) == [ps EXCEPT ![KeyIndex(ps, k)].last_used = tm]

\* _create_engine: a new engine object, known by its identity and by the
\* destination its URL names.
NewEngine(d, password) == [id |-> engines + 1, dest |-> d]

\* _pools[pool_key] = {"engine": engine, "last_used": time.time(), ...}
NewEntry(k, e, tm) == [key |-> k, engine |-> e, last_used |-> tm]

\* History of the LRU scenario: only sequential get_engine calls, every
\* creation for a destination never created before, and the first destination
\* re-accessed between consecutive creations.  created lists the destinations
\* in the order of their creation, as long as the run is such a scenario.
LruNorm(ok, touched, created) ==
    [ok |-> ok, touched |-> ok /\ touched,
     created |-> IF ok THEN created ELSE <<>>]

LruOff == LruNorm(FALSE, FALSE, <<>>)

LruOnStart(t) == lru.ok /\ \A u \in Tasks \ {t} : tpc[u] = "idle"

LruOnTouch(ok, d) ==
    LruNorm(ok /\ lru.created # <<>> /\ lru.created[1] = d, TRUE, lru.created)

LruOnCreate(ok, d) ==
    LruNorm(/\ ok
            /\ (lru.created = <<>> \/ lru.touched)
            /\ \A i \in 1..Len(lru.created) : lru.created[i] # d,
            FALSE, Append(lru.created, d))

\* get_engine returns engine e to task t.
ReturnEngine(t, e) ==
    /\ tpc' = [tpc EXCEPT ![t] = "have_engine"]
    /\ eng' = [eng EXCEPT ![t] = e]

\* The operation of task t is over: its locals are gone.
Done(t) ==
    /\ tpc' = [tpc EXCEPT ![t] = "idle"]
    /\ targ' = [targ EXCEPT ![t] = NoArgs]
    /\ eng' = [eng EXCEPT ![t] = NoEngine]

\* A get_engine that creates without looking the key up.
NotLookedUp(ps, k) == FALSE

\* get_engine's two lookups, both under the lock: "if pool_key in _pools"
\* (first critical section) and "if pool_key not in _pools" (second).
InRegistry(ps, k) == KeyIndex(ps, k) # 0

\* An eviction that is called inside get_engine's critical section.
LockHeldAtEviction(t) == t

\* The lock when get_engine calls _evict_old_pools (line 258): the call is
\* after the "async with" block, the lock is free.
LockAtEviction(t) == NoTask

\* get_engine (called directly, by get_session or by execute_query): the
\* first critical section (lines 229-255).
GetEngineFirst(t) ==
    /\ UNCHANGED <<agentVars, serverVars, mappingVars, sqlVars>>
    /\ tpc[t] = "idle"
    /\ lock = NoTask
    /\ \E d \in Dests, password \in Passwords :
         LET k == PoolKeyOf(d, password)
             ok == LruOnStart(t)
         IN  /\ targ' = [targ EXCEPT ![t] = [dest |-> d, password |-> password]]
             /\ IF InRegistry(pools, k)
                THEN \E tm \in TimeRead :
                       /\ pools' = Touch(pools, k, tm)
                       /\ now' = tm
                       /\ lru' = LruOnTouch(ok, d)
                       /\ ReturnEngine(t, pools[KeyIndex(pools, k)].engine)
                       /\ UNCHANGED <<engines, lock>>
                ELSE IF Len(pools) >= DB_POOL_MAX_SIZE
                THEN /\ tpc' = [tpc EXCEPT ![t] = "evict"]
                     /\ lru' = LruNorm(ok, lru.touched, lru.created)
                     /\ lock' = LockAtEviction(t)
                     /\ UNCHANGED <<pools, now, engines, eng>>
                ELSE /\ engines < MaxEngines
                     /\ \E tm \in TimeRead :
                          /\ engines' = engines + 1
                          /\ pools' = Append(pools, NewEntry(k, NewEngine(d, password), tm))
                          /\ now' = tm
                          /\ lru' = LruOnCreate(ok, d)
                          /\ ReturnEngine(t, NewEngine(d, password))
                          /\ UNCHANGED lock
    /\ UNCHANGED todo

\* _evict_old_pools, entered outside get_engine's critical section: takes
\* the lock and returns at once unless len(_pools) > DB_POOL_MAX_SIZE.
EvictBegin(t) ==
    /\ UNCHANGED <<agentVars, serverVars, mappingVars, sqlVars>>
    /\ tpc[t] = "evict"
    /\ lock = NoTask
    /\ IF Len(pools) <= DB_POOL_MAX_SIZE
       THEN /\ tpc' = [tpc EXCEPT ![t] = "ge2"]
            /\ UNCHANGED <<lock, todo>>
       ELSE /\ lock' = t
            /\ todo' = [todo EXCEPT ![t] = EvictTargets(pools)]
            /\ tpc' = [tpc EXCEPT ![t] = "evict_loop"]
    /\ UNCHANGED <<pools, now, engines, targ, eng, lru>>

\* One turn of _evict_old_pools' loop: dispose the engine (a suspension
\* point, the lock held) and delete the entry; the lock is released after
\* the last one.  An engine is disposed exactly when its entry is deleted.
EvictStep(t) ==
    /\ UNCHANGED <<agentVars, serverVars, mappingVars, sqlVars>>
    /\ tpc[t] = "evict_loop"
    /\ lock = t
    /\ todo[t] # <<>>
    /\ pools' = RemoveKey(pools, Head(todo[t]))
    /\ todo' = [todo EXCEPT ![t] = Tail(todo[t])]
    /\ IF Tail(todo[t]) = <<>>
       THEN /\ lock' = NoTask
            /\ tpc' = [tpc EXCEPT ![t] = "ge2"]
       ELSE UNCHANGED <<lock, tpc>>
    /\ UNCHANGED <<now, engines, targ, eng, lru>>

\* get_engine's second critical section (lines 260-274): create the entry
\* if it is (still) absent, touch it and return its engine.
GetEngineSecond(t) ==
    /\ UNCHANGED <<agentVars, serverVars, mappingVars, sqlVars>>
    /\ tpc[t] = "ge2"
    /\ lock = NoTask
    /\ LET d == targ[t].dest
           password == targ[t].password
           k == PoolKeyOf(d, password)
       IN  IF InRegistry(pools, k)
           THEN \E tm \in TimeRead :
                  /\ pools' = Touch(pools, k, tm)
                  /\ now' = tm
                  /\ lru' = LruOnTouch(lru.ok, d)
                  /\ ReturnEngine(t, pools[KeyIndex(pools, k)].engine)
                  /\ UNCHANGED engines
           ELSE /\ engines < MaxEngines
                /\ \E tm \in TimeRead :
                     /\ engines' = engines + 1
                     /\ pools' = Append(pools, NewEntry(k, NewEngine(d, password), tm))
                     /\ now' = tm
                     /\ lru' = LruOnCreate(lru.ok, d)
                     /\ ReturnEngine(t, NewEngine(d, password))
    /\ UNCHANGED <<lock, targ, todo>>

\* get_session after get_engine (lines 345-355): under the lock, look the
\* entry up again; _pools[pool_key] raises KeyError when the entry was
\* removed in between.  The session factory the entry caches is
\* async_sessionmaker(engine), a function of the entry's engine, so the
\* cache is not part of the state.
GetSessionFactory(t) ==
    /\ UNCHANGED <<agentVars, serverVars, mappingVars, sqlVars>>
    /\ tpc[t] = "have_engine"
    /\ lock = NoTask
    /\ IF KeyIndex(pools, PoolKeyOf(targ[t].dest, targ[t].password)) = 0
       THEN /\ tpc' = [tpc EXCEPT ![t] = "raised"]
            /\ UNCHANGED <<targ, eng>>
       ELSE Done(t)
    /\ lru' = LruOff
    /\ UNCHANGED <<pools, lock, now, engines, todo>>

\* The caller of get_engine uses the engine it was handed and finishes:
\* execute_query runs its statement on it (lines 384-399).
ExecuteQueryRun(t) ==
    /\ UNCHANGED <<agentVars, serverVars, mappingVars, sqlVars>>
    /\ tpc[t] = "have_engine"
    /\ Done(t)
    /\ UNCHANGED <<pools, lock, now, engines, todo, lru>>

\* An exception propagates to the caller of the operation.
Raise(t) ==
    /\ UNCHANGED <<agentVars, serverVars, mappingVars, sqlVars>>
    /\ tpc[t] = "raised"
    /\ Done(t)
    /\ UNCHANGED <<pools, lock, now, engines, todo, lru>>

\* get_pool_stats_async is called (line 528): the task waits for the lock.
GetPoolStatsCall(t) ==
    /\ UNCHANGED <<agentVars, serverVars, mappingVars, sqlVars>>
    /\ tpc[t] = "idle"
    /\ tpc' = [tpc EXCEPT ![t] = "stats"]
    /\ lru' = LruOff
    /\ UNCHANGED <<pools, lock, now, engines, targ, eng, todo>>

\* get_pool_stats_async (lines 537-538): with the lock, get_pool_stats reads
\* the registry (no suspension point) and the call returns.
GetPoolStatsRun(t) ==
    /\ UNCHANGED <<agentVars, serverVars, mappingVars, sqlVars>>
    /\ tpc[t] = "stats"
    /\ lock = NoTask
    /\ Done(t)
    /\ UNCHANGED <<pools, lock, now, engines, todo, lru>>

\* close_pool (lines 482-489): takes the lock; disposing the engine is a
\* suspension point with the lock held.  Closing a destination that has no
\* pool changes nothing and is left out.
ClosePoolBegin(t) ==
    /\ UNCHANGED <<agentVars, serverVars, mappingVars, sqlVars>>
    /\ tpc[t] = "idle"
    /\ lock = NoTask
    /\ \E d \in Dests :
         /\ KeyIndex(pools, PoolKeyOf(d, "p1")) # 0
         /\ targ' = [targ EXCEPT ![t] = [dest |-> d, password |-> "p1"]]
    /\ lock' = t
    /\ tpc' = [tpc EXCEPT ![t] = "cp_dispose"]
    /\ lru' = LruOff
    /\ UNCHANGED <<pools, now, engines, eng, todo>>

ClosePoolFinish(t) ==
    /\ UNCHANGED <<agentVars, serverVars, mappingVars, sqlVars>>
    /\ tpc[t] = "cp_dispose"
    /\ lock = t
    /\ pools' = RemoveKey(pools, PoolKeyOf(targ[t].dest, targ[t].password))
    /\ lock' = NoTask
    /\ Done(t)
    /\ UNCHANGED <<now, engines, todo, lru>>

\* close_all_pools (lines 494-502); with no pool open it changes nothing.
CloseAllBegin(t) ==
    /\ UNCHANGED <<agentVars, serverVars, mappingVars, sqlVars>>
    /\ tpc[t] = "idle"
    /\ lock = NoTask
    /\ Len(pools) > 0
    /\ lock' = t
    /\ tpc' = [tpc EXCEPT ![t] = "ca_dispose"]
    /\ lru' = LruOff
    /\ UNCHANGED <<pools, now, engines, targ, eng, todo>>

CloseAllFinish(t) ==
    /\ UNCHANGED <<agentVars, serverVars, mappingVars, sqlVars>>
    /\ tpc[t] = "ca_dispose"
    /\ lock = t
    /\ pools' = <<>>
    /\ lock' = NoTask
    /\ Done(t)
    /\ UNCHANGED <<now, engines, todo, lru>>

NextPool ==
    \E t \in Tasks :
        \/ GetEngineFirst(t)
        \/ EvictBegin(t)
        \/ EvictStep(t)
        \/ GetEngineSecond(t)
        \/ GetSessionFactory(t)
        \/ ExecuteQueryRun(t)
        \/ Raise(t)
        \/ ClosePoolBegin(t)
        \/ ClosePoolFinish(t)
        \/ CloseAllBegin(t)
        \/ CloseAllFinish(t)
        \/ GetPoolStatsCall(t)
        \/ GetPoolStatsRun(t)

(***************************************************************************)
(*                  THE PLAN-EXECUTE-REPLAN CONTROLLER                     *)
(***************************************************************************)

\* The cap on the number of execute_step rounds.
MAX_ITERATIONS == 15

\* A backstop that is reached before the iteration guard.
RecursionLimitBelowCap == MAX_ITERATIONS

\* run_agent: config = {"recursion_limit": MAX_ITERATIONS * 2 + 10}
recursion_limit == MAX_ITERATIONS * 2 + 10

\* The longest plan the planner or the replanner produces.
MaxPlanLen == 2

\* langgraph's END
END == "__end__"

\* state.get("response") when no node has written the key.
Unset == "<unset>"

\* run_agent's default, final_state.get("response", ...)
DefaultAnswer == "no answer was generated, please retry"

\* plan_step's response when the planner raises.
PlanErrorText == "planning failed, no plan could be generated"

\* run_agent's answer on GraphRecursionError.
RecursionText == "execution exceeded the limit and was stopped"

\* execute_step's entry in past_steps when step_index is out of range.
NoMoreSteps == "(no more steps)"

\* The texts a replanner Response carries: empty or not.
LLMTexts == {"", "answer"}

\* The plans an LLM produces: only their length matters to the controller.
Plans == {[i \in 1..n |-> "step"] : n \in 0..MaxPlanLen}

\* The reasons replan_step gives _generate_fallback_response.
CapReason == "maximum number of executions reached"
ReplanErrorReason == "replanning failed"

\* A fallback that is the notice alone.
NoticeOnly(ps, errors, reason) == "! " \o reason

\* _generate_fallback_response: the notice with the reason, the listing of
\* past_steps and the listing of the errors (here: how many each lists).
_generate_fallback_response(ps, errors, reason) ==
    "! " \o reason \o " | steps: " \o ToString(Len(ps))
         \o " | errors: " \o ToString(Len(errors))

\* Python's truth value of state.get("response").
Truthy(r) == r # Unset /\ r # ""

\* A guard that never stops the run.
IterationCapNever(ps) == FALSE

\* replan_step's guard: len(past_steps) >= MAX_ITERATIONS
IterationCapReached(ps) == Len(ps) >= MAX_ITERATIONS

\* A failed step that is not skipped.
StepAfterFailureStuck(i) == i

\* execute_step's except branch: "step_index": step_index + 1
StepAfterFailure(i) == i + 1

\* A new plan that is entered at the index of the old one.
IndexKept(i) == i

\* replan_step on a Plan: {"plan": new_steps, "step_index": 0}
IndexOfNewPlan(i) == 0

\* An answer read with no default.
FinalAnswerRaw(r) == r

\* run_agent: final_state.get("response", default)
FinalAnswer(r) == IF r = Unset THEN DefaultAnswer ELSE r

\* An edge from the planner back to the planner.
AgainThePlanner(r, p) == IF p = <<>> THEN END ELSE "planner"

\* should_continue_after_plan: the conditional edge after the planner.
should_continue_after_plan(r, p) ==
    IF Truthy(r) THEN END
    ELSE IF p = <<>> THEN END
    ELSE "agent"

should_end(r, p, i) ==
    IF Truthy(r) THEN END
    ELSE IF p = <<>> \/ i >= Len(p) THEN END
    ELSE "agent"

InitAgent ==
    /\ apc = "planner"
    /\ plan = <<>>
    /\ step_index = 0
    /\ past_steps = <<>>
    /\ response = Unset
    /\ error_log = <<>>
    /\ steps = 0
    /\ execCalls = 0
    /\ llmCalls = [replanner |-> 0, one_step |-> TRUE]
    /\ answer = Unset

\* What the planner's LLM call does: a plan, or an exception.
PlannerOutcomes ==
    {[raised |-> FALSE, steps |-> p] : p \in Plans}
        \cup {[raised |-> TRUE, steps |-> <<>>]}

\* What the executor sub-agent does: a final message, or an exception.
ExecutorOutcomes == {"ok", "raised"}

\* What the replanner's LLM call does: a Response, a Plan, or an exception.
ReplannerOutcomes ==
    {[kind |-> "Response", text |-> x, steps |-> <<>>] : x \in LLMTexts}
        \cup {[kind |-> "Plan", text |-> "", steps |-> p] : p \in Plans}
        \cup {[kind |-> "raised", text |-> "", steps |-> <<>>]}

\* app.ainvoke raises GraphRecursionError when nodes remain to be run after
\* recursion_limit steps; run_agent catches it and returns its notice.
GraphRecursionError ==
    /\ apc' = "returned"
    /\ answer' = RecursionText
    /\ UNCHANGED <<plan, step_index, past_steps, response, error_log, steps,
                   execCalls, llmCalls>>

\* The planner node, then should_continue_after_plan.
plan_step ==
    /\ UNCHANGED <<poolVars, serverVars, mappingVars, sqlVars>>
    /\ apc = "planner"
    /\ \E out \in PlannerOutcomes :
         LET new_response == IF out.raised THEN PlanErrorText ELSE response
         IN  /\ plan' = out.steps
             /\ step_index' = 0
             /\ response' = new_response
             /\ error_log' = IF out.raised THEN Append(error_log, "planner")
                             ELSE error_log
             /\ apc' = should_continue_after_plan(new_response, out.steps)
    /\ steps' = steps + 1
    /\ UNCHANGED <<past_steps, execCalls, llmCalls, answer>>

\* The agent node; its edge leads to replan.
execute_step ==
    /\ UNCHANGED <<poolVars, serverVars, mappingVars, sqlVars>>
    /\ apc = "agent"
    /\ IF steps >= recursion_limit
       THEN GraphRecursionError
       ELSE /\ IF step_index >= Len(plan)
               THEN /\ past_steps' = Append(past_steps, NoMoreSteps)
                    /\ UNCHANGED <<step_index, error_log, execCalls>>
               ELSE \E out \in ExecutorOutcomes :
                      /\ execCalls' = execCalls + 1
                      /\ past_steps' = Append(past_steps, plan[step_index + 1])
                      /\ step_index' = IF out = "ok" THEN step_index + 1
                                       ELSE StepAfterFailure(step_index)
                      /\ error_log' = IF out = "ok" THEN error_log
                                      ELSE Append(error_log, "executor")
            /\ apc' = "replan"
            /\ steps' = steps + 1
            /\ UNCHANGED <<plan, response, llmCalls, answer>>

\* The replan node, then should_end.
replan_step ==
    /\ UNCHANGED <<poolVars, serverVars, mappingVars, sqlVars>>
    /\ apc = "replan"
    /\ IF steps >= recursion_limit
       THEN GraphRecursionError
       ELSE /\ IF IterationCapReached(past_steps)
               THEN LET r == _generate_fallback_response(past_steps, error_log,
                                                         CapReason)
                    IN  /\ response' = r
                        /\ apc' = should_end(r, plan, step_index)
                        /\ UNCHANGED <<plan, step_index, error_log, llmCalls>>
               ELSE \E out \in ReplannerOutcomes :
                      LET r == CASE out.kind = "Response" -> out.text
                                 [] out.kind = "Plan" -> response
                                 [] OTHER -> _generate_fallback_response(
                                                 past_steps, error_log,
                                                 ReplanErrorReason)
                          p == IF out.kind = "Plan" THEN out.steps ELSE plan
                          i == IF out.kind = "Plan"
                               THEN IndexOfNewPlan(step_index)
                               ELSE step_index
                      IN  /\ response' = r
                          /\ plan' = p
                          /\ step_index' = i
                          /\ error_log' = IF out.kind = "raised"
                                          THEN Append(error_log, "replanner")
                                          ELSE error_log
                          /\ apc' = should_end(r, p, i)
                          /\ llmCalls' =
                               [replanner |-> llmCalls.replanner + 1,
                                one_step |-> /\ llmCalls.one_step
                                             /\ out.kind = "Plan"
                                             /\ Len(out.steps) = 1]
            /\ steps' = steps + 1
            /\ UNCHANGED <<past_steps, execCalls, answer>>

\* The graph has reached END: run_agent returns the response.
run_agent_return ==
    /\ UNCHANGED <<poolVars, serverVars, mappingVars, sqlVars>>
    /\ apc = END
    /\ answer' = FinalAnswer(response)
    /\ apc' = "returned"
    /\ UNCHANGED <<plan, step_index, past_steps, response, error_log, steps,
                   execCalls, llmCalls>>

NextAgent ==
    \/ plan_step
    \/ execute_step
    \/ replan_step
    \/ run_agent_return

(***************************************************************************)
(*        THE MIDDLEWARE, THE data_agent DISPATCHER AND THE RECORDER       *)
(***************************************************************************)

\* At most MaxRequests request ids are generated, and a request makes at
\* most MaxToolCalls tool calls.
MaxRequests == 2
MaxToolCalls == 1

\* The event-stream connections and the addresses they come from.
Conns == {"A", "B"}
ClientIps == {"ip1"}

\* The names clients pass as ?db=...; when the process starts the
\* db_mapping table of the control database holds an active row for the
\* names of ActiveMappings only.
DbKeys == {"x", "y", "ghost"}
ActiveMappings == {"x", "y"}

\* A connect whose query string has no db parameter.
NoDb == "<none>"

\* _current_db_key's initial value.
DefaultKey == "default"

\* {}: no configuration.  A configuration is known by its mapping's name.
NoConfig == "<empty>"

\* "": no request id (generate_request_id gives 1, 2, ...).
NoRequestId == 0

\* A connection before its connect, and after its disconnect.
NotConnected == [open |-> FALSE, closed |-> FALSE, ip |-> "ip1", db |-> NoDb]

Closed == [open |-> FALSE, closed |-> TRUE, ip |-> "ip1", db |-> NoDb]

NoRequest ==
    [pc |-> "idle", query |-> "", db_key |-> DefaultKey,
     request_id |-> NoRequestId, tool_count |-> 0, result |-> "",
     write_failed |-> FALSE]

\* No call of get_db_config has returned yet.
NoGet == [name |-> NoDb, config |-> NoConfig]

\* The module globals at import, after lifespan's load_db_mapping put
\* mapping in the cache, in a process started with the recorder enabled or
\* not.
ServerStarted(mapping, enabled) ==
    /\ _current_db_key = DefaultKey
    /\ _current_db_config = NoConfig
    /\ _db_mapping = mapping
    /\ ANALYTICS_ENABLED = enabled
    /\ conns = [c \in Conns |-> NotConnected]
    /\ sessions = {}
    /\ req = [c \in Conns |-> NoRequest]
    /\ next_request = 0
    /\ tool_call_log = EmptyBag
    /\ agent_execution_log = EmptyBag
    /\ db_mapping_table = ActiveMappings
    /\ got = NoGet

\* The processes considered: load_db_mapping loaded every active row and
\* the environment enables the recorder or not, or the load failed (the
\* cache starts empty and is filled by get_db_config) in a process with
\* the recorder off, its default.
Startups == {<<ActiveMappings, TRUE>>, <<ActiveMappings, FALSE>>, <<{}, FALSE>>}

InitServer == \E s \in Startups : ServerStarted(s[1], s[2])

\* get_db_config: the cache first, then the db_mapping table (found tells
\* whether the query of the control database succeeded); a row found is
\* written to the cache.  The result and the new cache.
get_db_config(db_key, found) ==
    IF db_key \in _db_mapping
    THEN [config |-> db_key, cache |-> _db_mapping]
    ELSE IF found /\ db_key \in db_mapping_table
    THEN [config |-> db_key, cache |-> _db_mapping \cup {db_key}]
    ELSE [config |-> NoConfig, cache |-> _db_mapping]

\* DatabaseConfigMiddleware.dispatch on GET /sse?db=...: a client opens
\* connection c.  The destination is written to the module's globals.
Connect(c) ==
    /\ UNCHANGED <<poolVars, agentVars, mappingVars, sqlVars>>
    /\ conns[c] = NotConnected
    /\ \E ip \in ClientIps, db \in DbKeys \cup {NoDb}, found \in BOOLEAN :
         /\ conns' = [conns EXCEPT ![c] =
                         [open |-> TRUE, closed |-> FALSE, ip |-> ip, db |-> db]]
         /\ IF db = NoDb
            THEN UNCHANGED <<_current_db_key, _current_db_config, _db_mapping>>
            ELSE LET r == get_db_config(db, found)
                 IN  /\ _current_db_key' = db
                     /\ _db_mapping' = r.cache
                     /\ _current_db_config' =
                            IF r.config # NoConfig THEN r.config
                            ELSE _current_db_config
    /\ UNCHANGED <<ANALYTICS_ENABLED, sessions, req, next_request,
                   tool_call_log, agent_execution_log>>

\* The event stream of connection c ends; no code of the server runs.  (A
\* connection closes between two requests.)
Disconnect(c) ==
    /\ UNCHANGED <<poolVars, agentVars, mappingVars, sqlVars>>
    /\ conns[c].open
    /\ req[c].pc = "idle"
    /\ conns' = [conns EXCEPT ![c] = Closed]
    /\ UNCHANGED <<_current_db_key, _current_db_config, _db_mapping,
                   ANALYTICS_ENABLED, sessions, req, next_request,
                   tool_call_log, agent_execution_log>>

\* log_agent_start: a fresh request id when the recorder is enabled.
log_agent_start == IF ANALYTICS_ENABLED THEN next_request + 1 ELSE NoRequestId

\* data_agent up to the call of run_agent.  The frame arrives by
\* POST /messages?session_id=..., whose query string has no db parameter:
\* dispatch binds nothing.  server._current_db_key is a str, so .get()
\* raises AttributeError and the key is read with get_current_db_key().
data_agent(c) ==
    /\ UNCHANGED <<poolVars, agentVars, mappingVars, sqlVars>>
    /\ conns[c].open
    /\ req[c].pc = "idle"
    /\ next_request < MaxRequests
    /\ \E query \in {"", "q"} :
         LET db_key == _current_db_key
         IN  IF query = ""
             THEN /\ req' = [req EXCEPT ![c] =
                        [NoRequest EXCEPT !.pc = "done", !.result = "empty query"]]
                  /\ UNCHANGED next_request
             ELSE IF db_key = "" \/ db_key = DefaultKey
             THEN /\ req' = [req EXCEPT ![c] =
                        [NoRequest EXCEPT !.pc = "done", !.query = query,
                                          !.result = "no destination"]]
                  /\ UNCHANGED next_request
             ELSE /\ req' = [req EXCEPT ![c] =
                        [NoRequest EXCEPT !.pc = "run_agent", !.query = query,
                                          !.db_key = db_key,
                                          !.request_id = log_agent_start]]
                  /\ next_request' = log_agent_start
    /\ UNCHANGED <<_current_db_key, _current_db_config, _db_mapping,
                   ANALYTICS_ENABLED, conns, sessions, tool_call_log,
                   agent_execution_log>>

\* A count of every row of the table, whatever its request_id.
CountAllToolCalls(rows, rid) == BagCardinality(rows)

\* log_agent_end's query: COUNT(ToolCallLog WHERE request_id = rid)
CountToolCalls(rows, rid) == CopiesIn(rid, rows)

\* A recorder function with no guard of its own: its caller sees the
\* failure of the write.
RecorderUnguarded(write_ok) == IF write_ok THEN "returned" ELSE "raised"

\* What the caller of a recorder function (log_tool_call, log_sql_query,
\* log_error, log_agent_end) sees: the body is in try / except Exception,
\* which logs the failure of the write and returns.
RecorderCall(write_ok) == "returned"

\* data_agent's answer: run_agent's result, or, when a statement after
\* "try:" raised an Exception, the notice of the except branch.
AnswerOf(outcome) ==
    IF outcome = "returned" THEN "answer" ELSE "Agent call failed"

\* The executor calls a tool, which ends with log_tool_call: when the
\* recorder is enabled and the context holds a request id, the counter of
\* the tool's context is incremented and a ToolCallLog row is written; the
\* write may fail, which log_tool_call swallows.  Otherwise it returns at
\* once.
log_tool_call(c) ==
    /\ UNCHANGED <<poolVars, agentVars, mappingVars, sqlVars>>
    /\ req[c].pc = "run_agent"
    /\ req[c].tool_count < MaxToolCalls
    /\ IF ANALYTICS_ENABLED /\ req[c].request_id # NoRequestId
       THEN \E written \in BOOLEAN :
              /\ req' = [req EXCEPT
                            ![c].tool_count = @ + 1,
                            ![c].result =
                                IF RecorderCall(written) = "returned" THEN @
                                ELSE "tool raised"]
              /\ tool_call_log' =
                     IF written
                     THEN tool_call_log (+) SetToBag({req[c].request_id})
                     ELSE tool_call_log
       ELSE UNCHANGED <<req, tool_call_log>>
    /\ UNCHANGED <<_current_db_key, _current_db_config, _db_mapping,
                   ANALYTICS_ENABLED, conns, sessions, next_request,
                   agent_execution_log>>

\* run_agent returns or raises, and data_agent ends with log_agent_end
\* (with status "success" or "error", the same steps): when the recorder is
\* enabled and the request has an id, the tool calls are counted from the
\* ToolCallLog table (when that query fails, from the context's counter:
\* the tools' increments are made in the contexts of child tasks and may
\* not be seen here), one AgentExecutionLog row is written (counted tells
\* where its count came from) and reset_request_context clears the
\* counter; a failed write is swallowed.
log_agent_end(c) ==
    /\ UNCHANGED <<poolVars, agentVars, mappingVars, sqlVars>>
    /\ req[c].pc = "run_agent"
    /\ IF ANALYTICS_ENABLED /\ req[c].request_id # NoRequestId
       THEN \E counted \in BOOLEAN, written \in BOOLEAN :
              /\ req' = [req EXCEPT ![c].pc = "done",
                                    ![c].result =
                                        IF @ = ""
                                        THEN AnswerOf(RecorderCall(written))
                                        ELSE @,
                                    ![c].tool_count = 0,
                                    ![c].write_failed = ~written]
              /\ \E tool_count \in
                   IF counted
                   THEN {CountToolCalls(tool_call_log, req[c].request_id)}
                   ELSE {0, req[c].tool_count} :
                 agent_execution_log' =
                     IF written
                     THEN agent_execution_log (+) SetToBag({
                                 [request_id |-> req[c].request_id,
                                  tool_call_count |-> tool_count,
                                  counted |-> counted]})
                     ELSE agent_execution_log
       ELSE /\ req' = [req EXCEPT ![c].pc = "done",
                                    ![c].result = AnswerOf("returned")]
            /\ UNCHANGED agent_execution_log
    /\ UNCHANGED <<_current_db_key, _current_db_config, _db_mapping,
                   ANALYTICS_ENABLED, conns, sessions, next_request,
                   tool_call_log>>

\* The event stream of connection c ends while its data_agent request is
\* in flight: the transport cancels the request's task, and CancelledError
\* is raised at the await of run_agent.  It is a BaseException: neither
\* run_agent's "except GraphRecursionError" nor data_agent's "except
\* Exception" catches it, so no statement of data_agent runs after it.
Cancel(c) ==
    /\ UNCHANGED <<poolVars, agentVars, mappingVars, sqlVars>>
    /\ conns[c].open
    /\ req[c].pc = "run_agent"
    /\ conns' = [conns EXCEPT ![c] = Closed]
    /\ req' = [req EXCEPT ![c] = NoRequest]
    /\ UNCHANGED <<_current_db_key, _current_db_config, _db_mapping,
                   ANALYTICS_ENABLED, sessions, next_request, tool_call_log,
                   agent_execution_log>>

\* The answer is sent to the client; the request's context is gone.
ReturnAnswer(c) ==
    /\ UNCHANGED <<poolVars, agentVars, mappingVars, sqlVars>>
    /\ req[c].pc = "done"
    /\ req' = [req EXCEPT ![c] = NoRequest]
    /\ UNCHANGED <<_current_db_key, _current_db_config, _db_mapping,
                   ANALYTICS_ENABLED, conns, sessions, next_request, tool_call_log, agent_execution_log>>

NextServer ==
    \E c \in Conns :
        \/ Connect(c)
        \/ Disconnect(c)
        \/ data_agent(c)
        \/ log_tool_call(c)
        \/ log_agent_end(c)
        \/ Cancel(c)
        \/ ReturnAnswer(c)

(***************************************************************************)
(*                  THE CACHE OF THE db_mapping TABLE                      *)
(***************************************************************************)

\* load_db_mapping (at startup, and through refresh_db_mapping on
\* GET /refresh): the cache is bound to a new dict of every active row, or
\* to an empty dict when the query fails (loaded tells which).
load_db_mapping(loaded) ==
    /\ UNCHANGED <<poolVars, agentVars, sqlVars>>
    /\ _db_mapping' = IF loaded THEN db_mapping_table ELSE {}
    /\ UNCHANGED <<_current_db_key, _current_db_config, ANALYTICS_ENABLED,
                   conns, sessions, req, next_request, tool_call_log,
                   agent_execution_log, db_mapping_table, got>>

\* A call of get_db_config(name): a hit returns the cached record, a miss
\* queries the table and inserts the active row found into the cache.
GetConfig(name) ==
    /\ UNCHANGED <<poolVars, agentVars, sqlVars>>
    /\ \E found \in BOOLEAN :
         LET r == get_db_config(name, found)
         IN  /\ got' = [name |-> name, config |-> r.config]
             /\ _db_mapping' = r.cache
    /\ UNCHANGED <<_current_db_key, _current_db_config, ANALYTICS_ENABLED,
                   conns, sessions, req, next_request, tool_call_log,
                   agent_execution_log, db_mapping_table>>

\* Operator tooling changes the is_active flag of a row
\* (DBMappingService.update); the request path never does.
SetActive(name, is_active) ==
    /\ UNCHANGED <<poolVars, agentVars, serverVars, sqlVars>>
    /\ db_mapping_table' = IF is_active THEN db_mapping_table \cup {name}
                           ELSE db_mapping_table \ {name}
    /\ db_mapping_table' # db_mapping_table
    /\ UNCHANGED got

NextMapping ==
    \/ \E loaded \in BOOLEAN : load_db_mapping(loaded)
    \/ \E name \in DbKeys : GetConfig(name)
    \/ \E name \in DbKeys, is_active \in BOOLEAN : SetActive(name, is_active)

(***************************************************************************)
(*                 THE SQL VALIDATOR AND THE SQL TOOL                      *)
(***************************************************************************)

\* A text is a sequence of chunks.  A chunk is a run of characters known by
\* its upper-case spelling (text), the letter case it is written in, and,
\* for a LIMIT clause, its number.  The texts considered are an optional
\* leading blank, a first word, and at most MaxRest further chunks.
MaxRest == 2

Cases == {"upper", "lower", "mixed"}

Chunk(text, case) == [text |-> text, case |-> case, n |-> 0]

Blank == Chunk(" ", "upper")

Semicolon == Chunk(";", "upper")

\* " LIMIT k"
LimitClause(k, case) == [text |-> " LIMIT n", case |-> case, n |-> k]

\* The statements of the canonical set, by their first word.
MutatingKeywords ==
    {"INSERT", "UPDATE", "DELETE", "DROP", "TRUNCATE", "ALTER", "CREATE",
     "GRANT", "REVOKE", "REPLACE", "RENAME", "MERGE"}

FirstWords ==
    {Chunk(w, c) : w \in MutatingKeywords, c \in Cases}
        \cup {Chunk("SELECT", "upper"), Chunk("SELECT", "lower"),
              Chunk("WITH", "upper")}

\* What follows the first word: a blank, " t" (a name), ";", "(", ")",
\* " limit 5", " limits" (a name that contains the letters of LIMIT), and
\* "/**/".
RestChunks ==
    {Blank, Chunk(" T", "lower"), Semicolon, Chunk("(", "upper"),
     Chunk(")", "upper"), LimitClause(5, "lower"), Chunk(" LIMITS", "lower"),
     Chunk("/**/", "upper")}

Rests == UNION {[1..n -> RestChunks] : n \in 0..MaxRest}

Leads == {<<>>, <<Blank>>}

Statements == {lead \o <<w>> \o rest : lead \in Leads, w \in FirstWords,
                                       rest \in Rests}

\* The upper-case words of a chunk (the \w+ runs of its characters).
WordsOf(c) ==
    CASE c.text = " T" -> {"T"}
      [] c.text = " LIMIT n" -> {"LIMIT", "n"}
      [] c.text = " LIMITS" -> {"LIMITS"}
      [] c.text \in {" ", ";", "(", ")", "/**/"} -> {}
      [] OTHER -> {c.text}

IsSpace(c) == c.text = " "

\* str.upper()
upper(t) == [i \in 1..Len(t) |-> [t[i] EXCEPT !.case = "upper"]]

\* str.count(ch), for a character that is a chunk of its own.
count(t, ch) == Cardinality({i \in 1..Len(t) : t[i].text = ch})

\* str.rstrip(): the blanks at the end are removed.
rstrip(t) ==
    LET keep == {i \in 1..Len(t) : ~IsSpace(t[i])}
    IN  IF keep = {} THEN <<>>
        ELSE SubSeq(t, 1, CHOOSE i \in keep : \A j \in keep : j <= i)

\* str.strip(): the blanks at both ends are removed.
strip(t) ==
    LET keep == {i \in 1..Len(t) : ~IsSpace(t[i])}
    IN  IF keep = {} THEN <<>>
        ELSE SubSeq(t, CHOOSE i \in keep : \A j \in keep : i <= j,
                       CHOOSE i \in keep : \A j \in keep : j <= i)

\* str.rstrip(';'): the semicolons at the end are removed.
rstrip_semicolons(t) ==
    LET keep == {i \in 1..Len(t) : t[i].text # ";"}
    IN  IF keep = {} THEN <<>>
        ELSE SubSeq(t, 1, CHOOSE i \in keep : \A j \in keep : j <= i)

\* normalize_sql: strip (the texts considered hold no carriage return).
normalize_sql(t) == strip(t)

DANGEROUS_KEYWORDS ==
    {"DROP", "DELETE", "INSERT", "UPDATE", "TRUNCATE", "ALTER", "CREATE",
     "GRANT", "REVOKE", "EXECUTE", "CALL", "SHOW", "DESCRIBE", "EXPLAIN",
     "HANDLER", "LOAD", "LOCK", "REPLACE", "INTO", "VALUES", "SET"}

\* A list of prefixes that lets every statement start.
AnyPrefix == MutatingKeywords \cup {"SELECT", "SELECT(", "WITH"}

ALLOWED_PREFIXES == {"SELECT", "SELECT(", "WITH"}

\* sql_normalized.startswith(prefix): no word of the texts considered is a
\* longer word that begins with a prefix.
startswith(t, prefix) ==
    /\ t # <<>>
    /\ IF prefix = "SELECT("
       THEN Len(t) >= 2 /\ t[1].text = "SELECT" /\ t[2].text = "("
       ELSE t[1].text = prefix

\* check_sql_structure: is_valid.  (The texts considered hold no quote.)
check_sql_structure(t) ==
    /\ count(t, "(") = count(t, ")")
    /\ count(t, "'") % 2 = 0
    /\ ~(count(t, ";") > 0 /\ rstrip(t)[Len(rstrip(t))].text # ";")

\* re.search(r";\s*\w+", sql)
MultiStatement(t) ==
    \E i \in 1..Len(t), j \in 1..Len(t) :
        /\ i < j
        /\ t[i].text = ";"
        /\ \A k \in (i + 1)..(j - 1) : IsSpace(t[k])
        /\ WordsOf(t[j]) # {}

\* re.search(r"/\*.*\*/", sql)
BlockComment(t) == \E i \in 1..Len(t) : t[i].text = "/**/"

\* re.match(r'^[\s(]*(\w+)', sql_normalized)
FirstKeywordFound(t) ==
    \E j \in 1..Len(t) :
        /\ WordsOf(t[j]) # {}
        /\ \A k \in 1..(j - 1) : t[k].text \in {" ", "("}

\* check_for_injection: is_injection.  (The other patterns of
\* INJECTION_PATTERNS need "--" or a quote followed by OR / AND, which the
\* texts considered do not hold.)
check_for_injection(t) ==
    \/ MultiStatement(t)
    \/ BlockComment(t)
    \/ /\ ~\E prefix \in ALLOWED_PREFIXES : startswith(upper(t), prefix)
       /\ FirstKeywordFound(upper(t))
    \/ \E i \in 1..Len(t) : WordsOf(upper(t)[i]) \cap DANGEROUS_KEYWORDS # {}

\* validate_sql: is_valid.  (In strict mode: the texts considered hold none
\* of the dangerous_functions, and are short.)
validate_sql(t, strict_mode) ==
    /\ strip(t) # <<>>
    /\ LET normalized == normalize_sql(t)
       IN  /\ check_sql_structure(normalized)
           /\ ~check_for_injection(normalized)
           /\ strict_mode => count(normalized, "(") <= 50

\* limit = None
None == -1

\* sanitize_limit
sanitize_limit(k) ==
    IF k = None THEN 100
    ELSE IF k <= 0 THEN 1
    ELSE IF k > 10000 THEN 10000
    ELSE k

\* "LIMIT" in sql.upper()
ContainsLIMIT(t) ==
    \E i \in 1..Len(t) : upper(t)[i].text \in {" LIMIT n", " LIMITS"}

\* An injection of the limit as passed.
InjectRawLimit(t, k) ==
    IF ContainsLIMIT(t) THEN t
    ELSE Append(rstrip_semicolons(t), LimitClause(k, "upper"))

\* execute_sql_query, step 3: f"{sql.rstrip(';')} LIMIT {limit}" unless the
\* text contains LIMIT.
InjectLimit(t, k) ==
    IF ContainsLIMIT(t) THEN t
    ELSE Append(rstrip_semicolons(t), LimitClause(sanitize_limit(k), "upper"))

\* errors.py, ErrorCode: the codes the SQL tool uses.
ErrorCode ==
    [UNKNOWN_ERROR |-> 1000, INVALID_PARAMS |-> 1001,
     MISSING_REQUIRED_PARAM |-> 1002, DB_CONNECTION_ERROR |-> 3000,
     DB_QUERY_ERROR |-> 3001, DB_TIMEOUT |-> 3002,
     SQL_VALIDATION_ERROR |-> 4002]

\* format_error_response: {"success": False, "error": {"code", "code_name"}}
format_error_response(code_name) ==
    [success |-> FALSE, code |-> ErrorCode[code_name], code_name |-> code_name]

\* format_success_response: {"success": True, "data", "columns", ...}
format_success_response == [success |-> TRUE, code |-> 0, code_name |-> ""]

\* Nothing was returned yet.
NoEnvelope == [success |-> FALSE, code |-> 0, code_name |-> "none"]

\* The limits a caller passes.
Limits == {None, 0, 5, 10001}

\* The hosts a caller passes or the context supplies; "" when neither does.
SqlHosts == {"", "h1"}

\* The texts a caller passes: the statements, the empty text and a blank.
SqlTexts == Statements \cup {<<>>, <<Blank>>}

\* The destination of a call (port, username and database have defaults).
SqlDest(h) == [host |-> h, port |-> 3306, username |-> "u", database |-> "a"]

\* No row was written.
NoRows == [ToolCallLog |-> 0, SQLQueryLog |-> 0]

\* log_tool_call(...) and log_sql_query(...) inside a request: each writes
\* one row, unless the recorder is off.
LogToolCallAndSqlQuery ==
    IF ANALYTICS_ENABLED THEN [ToolCallLog |-> 1, SQLQueryLog |-> 1]
    ELSE NoRows

\* No call of the SQL tool is under way.
SqlIdle ==
    /\ sql = <<>>
    /\ limit = None
    /\ sql_host = ""
    /\ qpc = "idle"
    /\ sent = <<>>
    /\ envelope = NoEnvelope
    /\ emitted = NoRows

\* execute_sql_query(sql, host, ..., limit) was called.
SqlCalled(s, k, h) ==
    /\ sql = s
    /\ limit = k
    /\ sql_host = h
    /\ qpc = "called"
    /\ sent = <<>>
    /\ envelope = NoEnvelope
    /\ emitted = NoRows

\* The registry when it holds the engine of an earlier execute_query for
\* the destination of the call.
PoolWarm ==
    /\ pools = <<NewEntry(PoolKeyOf(SqlDest("h1"), "p1"),
                          [id |-> 1, dest |-> SqlDest("h1")], 0)>>
    /\ lock = NoTask
    /\ now = 0
    /\ engines = 1
    /\ tpc = [t \in Tasks |-> "idle"]
    /\ targ = [t \in Tasks |-> NoArgs]
    /\ eng = [t \in Tasks |-> NoEngine]
    /\ todo = [t \in Tasks |-> <<>>]
    /\ lru = LruNorm(TRUE, FALSE, <<SqlDest("h1")>>)

\* The calls considered, as (limit, host, registry warm): every limit with
\* a host and an empty registry, and the default limit without a host or
\* with a warm registry.
SqlCalls ==
    {<<k, "h1", FALSE>> : k \in Limits}
        \cup {<<None, h, FALSE>> : h \in SqlHosts}
        \cup {<<None, "h1", TRUE>>}

\* The queries the knowledge tool is called with.
Queries == {<<>>, <<Blank>>, <<Chunk("T", "lower")>>}

\* get_table_schema(table_name, host, ...) was called.
SchemaCalled(h) ==
    /\ sql = <<>>
    /\ limit = None
    /\ sql_host = h
    /\ qpc = "schema_called"
    /\ sent = <<>>
    /\ envelope = NoEnvelope
    /\ emitted = NoRows

\* search_knowledge_graph(query, ...) was called.
KnowledgeCalled(query) ==
    /\ sql = query
    /\ limit = None
    /\ sql_host = ""
    /\ qpc = "knowledge_called"
    /\ sent = <<>>
    /\ envelope = NoEnvelope
    /\ emitted = NoRows

\* The sub-agent has called one of its tools, inside a request and with the
\* recorder on.
InitTools ==
    /\ InitAgent
    /\ ServerStarted(ActiveMappings, TRUE)
    /\ \/ \E s \in SqlTexts, c \in SqlCalls :
            /\ SqlCalled(s, c[1], c[2])
            /\ IF c[3] THEN PoolWarm ELSE InitPool
       \/ \E h \in SqlHosts : SchemaCalled(h) /\ InitPool
       \/ \E query \in Queries : KnowledgeCalled(query) /\ InitPool

\* The tool returns an envelope without having called execute_query.
ReturnError(code_name) ==
    /\ envelope' = format_error_response(code_name)
    /\ qpc' = "returned"
    /\ UNCHANGED <<sql, limit, sql_host, sent, emitted>>

\* A tool that injects the limit and goes on without validating.
Unvalidated(t) == TRUE

\* execute_sql_query, step 2: is_valid of validate_sql(sql, strict_mode=True)
Validated(t) == validate_sql(t, TRUE)

\* execute_sql_query, steps 1 to 3 (lines 128-212): the parameter checks,
\* the validation and the injection of the limit.
PrepareSql ==
    /\ UNCHANGED <<poolVars, agentVars, serverVars, mappingVars>>
    /\ qpc = "called"
    /\ LET stripped == strip(sql)
       IN  IF stripped = <<>> THEN ReturnError("INVALID_PARAMS")
           ELSE IF sql_host = "" THEN ReturnError("MISSING_REQUIRED_PARAM")
           ELSE IF ~Validated(stripped)
           THEN ReturnError("SQL_VALIDATION_ERROR")
           ELSE /\ sent' = InjectLimit(stripped, limit)
                /\ qpc' = "querying"
                /\ UNCHANGED <<sql, limit, sql_host, envelope, emitted>>

\* What execute_query does: rows, or an SQLAlchemyError whose message holds
\* "timeout", "connection" or neither, or another exception.
QueryOutcomes == {"rows", "timeout", "connection", "query", "exception"}

\* The envelope of an outcome (lines 232-420).
EnvelopeOf(outcome) ==
    CASE outcome = "rows" -> format_success_response
      [] outcome = "timeout" -> format_error_response("DB_TIMEOUT")
      [] outcome = "connection" -> format_error_response("DB_CONNECTION_ERROR")
      [] outcome = "query" -> format_error_response("DB_QUERY_ERROR")
      [] OTHER -> format_error_response("UNKNOWN_ERROR")

\* get_engine(d) called by the one task there is: the entry of the
\* destination is touched, or created.
GetEngineAlone(d) ==
    LET k == PoolKeyOf(d, "p1")
    IN  /\ \E tm \in TimeRead :
              /\ now' = tm
              /\ IF KeyIndex(pools, k) # 0
                 THEN /\ pools' = Touch(pools, k, tm)
                      /\ lru' = LruOnTouch(lru.ok, d)
                      /\ UNCHANGED engines
                 ELSE /\ engines' = engines + 1
                      /\ pools' = Append(pools, NewEntry(k, NewEngine(d, "p1"), tm))
                      /\ lru' = LruOnCreate(lru.ok, d)
        /\ UNCHANGED <<lock, tpc, targ, eng, todo>>

\* execute_sql_query, step 4 (lines 214-420): await execute_query(host, ...,
\* sql), which takes the engine of the destination from the registry and
\* runs the text on it; the outcome becomes the envelope.
RunQuery ==
    /\ UNCHANGED <<agentVars, serverVars, mappingVars>>
    /\ qpc = "querying"
    /\ GetEngineAlone(SqlDest(sql_host))
    /\ \E outcome \in QueryOutcomes : envelope' = EnvelopeOf(outcome)
    /\ emitted' = LogToolCallAndSqlQuery
    /\ qpc' = "returned"
    /\ UNCHANGED <<sql, limit, sql_host, sent>>

\* get_table_schema's result on success: a text, not JSON.
SchemaText == [success |-> TRUE, code |-> 0, code_name |-> ""]

\* What get_engine and the catalog queries do: the text of the schema, or
\* an SQLAlchemyError whose message holds "connection" or not, or another
\* exception.
SchemaOutcomes == {"text", "connection", "query", "exception"}

\* get_table_schema (lines 90-208): the check of host, get_engine for the
\* information_schema of the host, and the result or the envelope of the
\* error.
get_table_schema ==
    /\ UNCHANGED <<agentVars, serverVars, mappingVars>>
    /\ qpc = "schema_called"
    /\ IF sql_host = ""
       THEN /\ envelope' = format_error_response("MISSING_REQUIRED_PARAM")
            /\ UNCHANGED poolVars
       ELSE /\ GetEngineAlone([SqlDest(sql_host) EXCEPT
                                   !.database = "information_schema"])
            /\ \E outcome \in SchemaOutcomes :
                 envelope' = IF outcome = "text" THEN SchemaText
                             ELSE EnvelopeOf(outcome)
    /\ qpc' = "returned"
    /\ UNCHANGED <<sql, limit, sql_host, sent, emitted>>

\* json.dumps({"success": True, "results": ..., "message": ...})
KnowledgeFound == [success |-> TRUE, code |-> 0, code_name |-> ""]

\* json.dumps({"success": False, "message": ..., "results": []}): the
\* object has no "error", no code and no code_name.
KnowledgeFailure == [success |-> FALSE, code |-> 0, code_name |-> ""]

\* What requests.post does: a response with a status, or an exception.
KnowledgeOutcomes ==
    {"200", "404", "500", "ConnectionError", "Timeout", "Exception"}

\* search_knowledge_graph (lines 14-135): the check of query, the POST, and
\* the result by status or exception.
search_knowledge_graph ==
    /\ UNCHANGED <<poolVars, agentVars, serverVars, mappingVars>>
    /\ qpc = "knowledge_called"
    /\ IF strip(sql) = <<>>
       THEN envelope' = KnowledgeFailure
       ELSE \E outcome \in KnowledgeOutcomes :
              envelope' = IF outcome = "200" THEN KnowledgeFound
                          ELSE KnowledgeFailure
    /\ qpc' = "returned"
    /\ UNCHANGED <<sql, limit, sql_host, sent, emitted>>

NextTools ==
    \/ PrepareSql
    \/ RunQuery
    \/ get_table_schema
    \/ search_knowledge_graph

(***************************************************************************)
(*                            SPECIFICATIONS                               *)
(***************************************************************************)

Init == InitPool /\ InitAgent /\ InitServer /\ SqlIdle

\* The process as deployed by default: the recorder off, and the mappings
\* loaded.  Neither the registry nor the controller reads these.
InitDefault ==
    InitPool /\ InitAgent /\ ServerStarted(ActiveMappings, FALSE) /\ SqlIdle

\* The registry under concurrent callers.
SpecPool == InitDefault /\ [][NextPool]_vars

\* The registry's operations when every caller passes the same password
\* and the clock is read within one tick (neither decides who gets the
\* lock).
NextPoolOnePassword ==
    /\ NextPool
    /\ now' = now
    /\ \A t \in Tasks : targ'[t].password = "p1"

\* The registry under concurrent callers, with asyncio's scheduling: a
\* task that waits for the lock gets it (asyncio.Lock wakes its waiters in
\* FIFO order), and an awaited dispose() returns.
SpecPoolFair ==
    /\ InitDefault
    /\ [][NextPoolOnePassword]_vars
    /\ \A t \in Tasks :
          /\ SF_vars(EvictBegin(t))
          /\ SF_vars(GetEngineSecond(t))
          /\ SF_vars(GetPoolStatsRun(t))
          /\ WF_vars(EvictStep(t))
          /\ WF_vars(ClosePoolFinish(t))
          /\ WF_vars(CloseAllFinish(t))

\* One run of the controller.
SpecAgent == InitDefault /\ [][NextAgent]_vars

\* One run of the controller whose awaited calls (the LLM, the executor)
\* all return: the event loop resumes the run whenever it can go on.
SpecAgentFair == SpecAgent /\ WF_vars(NextAgent)

\* The cache under loads, lookups and changes of the table.
SpecMapping == InitDefault /\ [][NextMapping]_vars

\* The server under connects, disconnects and data_agent requests.
SpecServer == Init /\ [][NextServer]_vars

\* One call of a tool of the sub-agent, for every argument.
SpecTools == InitTools /\ [][NextTools]_vars

(***************************************************************************)
(*                 Properties of the connection-pool registry              *)
(***************************************************************************)

\* C2: in every reachable state, whatever the interleaving of get_engine,
\* get_session, execute_query, close_pool and close_all_pools, the registry
\* holds at most DB_POOL_MAX_SIZE pools.
C2_RegistryWithinCap == Len(pools) <= DB_POOL_MAX_SIZE

\* The destinations the registry holds a pool for.
Registered == {pools[i].engine.dest : i \in 1..Len(pools)}

\* C3: after DB_POOL_MAX_SIZE + k sequential creations for distinct
\* destinations, the first destination re-accessed between creations,
\* exactly k pools have been evicted, they are the k least recently used
\* ones other than the first (the destinations created 2nd .. (k+1)th), and
\* the first destination is still registered.
C3_LruEvictsOldestKeepsFirst ==
    (lru.ok /\ AllIdle /\ Len(lru.created) > DB_POOL_MAX_SIZE) =>
        LET k == Len(lru.created) - DB_POOL_MAX_SIZE
        IN  /\ Len(pools) = Len(lru.created) - k
            /\ Registered =
                   {lru.created[i] : i \in {1} \cup ((k + 2)..Len(lru.created))}

\* C4: get_engine calls with the same (host, port, username, database)
\* return the same engine, which is created once, whatever passwords the
\* calls pass: the registry never holds two engines for one destination,
\* the engine handed out is one for the destination asked for, and two
\* callers holding registered engines for the same destination hold the
\* same engine.
C4_SameDestinationSameEngine ==
    /\ \A i, j \in 1..Len(pools) :
          pools[i].engine.dest = pools[j].engine.dest => i = j
    /\ \A t \in Tasks :
          tpc[t] = "have_engine" => eng[t].dest = targ[t].dest
    /\ \A t, u \in Tasks :
          (/\ tpc[t] = "have_engine" /\ tpc[u] = "have_engine"
           /\ targ[t].dest = targ[u].dest
           /\ \E i \in 1..Len(pools) : pools[i].engine = eng[t]
           /\ \E i \in 1..Len(pools) : pools[i].engine = eng[u])
          => eng[t] = eng[u]

\* Two callers passed different passwords for one destination and hold the
\* same engine, the only one created.
C4_Witness ==
    \E t, u \in Tasks :
        /\ t # u
        /\ tpc[t] = "have_engine" /\ tpc[u] = "have_engine"
        /\ targ[t].dest = targ[u].dest
        /\ targ[t].password # targ[u].password
        /\ eng[t] = eng[u]
        /\ eng[t].id = 1
        /\ engines = 1

\* C25: when the entry of a caller's destination is removed between the
\* caller's get_engine and its use of the entry, the operation is retried
\* and completes: no operation ends by raising.
C25_EvictionRaceIsRetried == \A t \in Tasks : tpc[t] # "raised"

\* Engine e is handed to task t by this step of get_engine.
Handed(t, e) ==
    /\ tpc[t] # "have_engine"
    /\ tpc'[t] = "have_engine"
    /\ eng'[t] = e

\* C28: an engine is created for a key only while the key is absent from the
\* registry, the registry never holds two entries for one key, and a caller
\* of get_engine is handed the engine that the registry holds for its key
\* at that moment, so concurrent callers for one key whose entry stays
\* registered hold the same engine.
C28_OneEnginePerKey ==
    [][/\ (engines' # engines)
            => \E t \in Tasks :
                  LET k == PoolKeyOf(targ'[t].dest, targ'[t].password)
                  IN  /\ KeyIndex(pools, k) = 0
                      /\ Len(pools') = Len(pools) + 1
                      /\ pools'[Len(pools')].key = k
                      /\ Handed(t, pools'[Len(pools')].engine)
       /\ \A i, j \in 1..Len(pools') :
              pools'[i].key = pools'[j].key => i = j
       /\ \A t \in Tasks :
              (tpc[t] # "have_engine" /\ tpc'[t] = "have_engine")
                 => LET k == PoolKeyOf(targ'[t].dest, targ'[t].password)
                    IN  /\ KeyIndex(pools', k) # 0
                        /\ eng'[t] = pools'[KeyIndex(pools', k)].engine
       /\ \A t, u \in Tasks :
              (/\ tpc'[t] = "have_engine" /\ tpc'[u] = "have_engine"
               /\ targ'[t].dest = targ'[u].dest
               /\ \E i \in 1..Len(pools') : pools'[i].engine = eng'[t]
               /\ \E i \in 1..Len(pools') : pools'[i].engine = eng'[u])
                 => eng'[t] = eng'[u]]_vars

\* Both callers missed the key in a full registry and went through the
\* eviction; the first has created the engine in its second critical
\* section and the second is about to enter its own for the same key.
C28_Witness ==
    \E t, u \in Tasks :
        /\ tpc[t] = "have_engine"
        /\ tpc[u] = "ge2"
        /\ targ[t].dest = targ[u].dest
        /\ eng[t].id = DB_POOL_MAX_SIZE + 1
        /\ Len(pools) = DB_POOL_MAX_SIZE + 1
        /\ pools[Len(pools)].engine = eng[t]

\* C29: an engine that get_engine returned stays registered, hence not
\* disposed (an engine is disposed exactly when its entry is deleted),
\* until its caller's execute_query or session is over.
C29_EngineInUseIsNotDisposed ==
    \A t \in Tasks :
        tpc[t] = "have_engine"
            => \E i \in 1..Len(pools) : pools[i].engine = eng[t]

\* The states of a task inside a registry operation that has not returned.
InRegistryCall ==
    {"evict", "evict_loop", "ge2", "stats", "cp_dispose", "ca_dispose"}

\* Task t is in get_engine's second critical section, its key is absent and
\* the model has no engine left to create (creation is capped by
\* MaxEngines): the call is beyond what the model represents.
OutOfEngines(t) ==
    /\ tpc[t] = "ge2"
    /\ engines = MaxEngines
    /\ KeyIndex(pools, PoolKeyOf(targ[t].dest, targ[t].password)) = 0

\* C26: the lock is held only by a task inside a critical section that
\* contains a suspension point, a task that holds it never waits for it,
\* eviction starts with the lock free (outside get_engine's critical
\* sections) and get_engine looks the key up again afterwards, and every
\* get_engine, close_pool, close_all_pools and get_pool_stats_async call
\* that is under way returns (or needs more engines than MaxEngines).
C26_LockWithoutDeadlock ==
    /\ [](lock # NoTask
            => tpc[lock] \in {"evict_loop", "cp_dispose", "ca_dispose"})
    /\ [](\A t \in Tasks :
            tpc[t] \in {"evict", "ge2", "stats"} => lock # t)
    /\ [][\A t \in Tasks :
            (tpc[t] = "evict" /\ tpc'[t] # "evict")
                => lock = NoTask /\ tpc'[t] \in {"evict_loop", "ge2"}]_vars
    /\ \A t \in Tasks :
          (tpc[t] \in InRegistryCall)
              ~> (tpc[t] \notin InRegistryCall \/ OutOfEngines(t))

\* One task waits in get_pool_stats_async and the other in get_engine's
\* eviction while no one holds the lock.
C26_Witness ==
    /\ tpc["t1"] = "stats"
    /\ tpc["t2"] = "evict"
    /\ lock = NoTask


(***************************************************************************)
(*                      Properties of the controller                       *)
(***************************************************************************)

\* The errors the executor logged.
ExecutorErrors == Len(SelectSeq(error_log, LAMBDA e : e = "executor"))

\* The answer is a fallback synthesized from past_steps and the errors.
IsFallback(a) ==
    \E reason \in {CapReason, ReplanErrorReason} :
        \E n \in 0..MAX_ITERATIONS, m \in 0..MAX_ITERATIONS :
            a = "! " \o reason \o " | steps: " \o ToString(n)
                     \o " | errors: " \o ToString(m)

\* C5: whatever the planner, the executor and the replanner do, one run
\* invokes the executor at most MAX_ITERATIONS times and past_steps never
\* holds more than MAX_ITERATIONS entries, in particular when run_agent
\* returns.
C5_BoundedIterations ==
    /\ execCalls <= MAX_ITERATIONS
    /\ Len(past_steps) <= MAX_ITERATIONS

\* run_agent has returned after exactly MAX_ITERATIONS executor invocations.
C5_Witness ==
    /\ apc = "returned"
    /\ execCalls = MAX_ITERATIONS
    /\ Len(past_steps) = MAX_ITERATIONS

\* C6 (as stated): when the run has ended, final_response is set and the
\* answer returned is the text of a replanner Response or a fallback
\* synthesized from past_steps and errors.
C6_AnswerIsResponseOrFallback ==
    apc = "returned" =>
        /\ response # Unset
        /\ answer \in LLMTexts \/ IsFallback(answer)

\* C6 (amended): every run ends, with run_agent returning.  The answer is
\* the response when a node has set it: the text of the last replanner
\* Response (possibly empty), a fallback synthesized from past_steps and
\* errors, or the planner's error notice.  When the run ends on an empty
\* plan no response is set and the answer is run_agent's fixed default.  A
\* Response with empty text ends the run only when no step of the plan
\* remains.
C6_TerminatesWithAnAnswer ==
    /\ <>(apc = "returned")
    /\ [](apc = "returned" =>
            /\ steps <= 2 * MAX_ITERATIONS + 1
            /\ IF response = Unset
               THEN answer = DefaultAnswer /\ plan = <<>>
               ELSE /\ answer = response
                    /\ \/ answer \in LLMTexts
                       \/ IsFallback(answer)
                       \/ answer = PlanErrorText /\ past_steps = <<>>
                    /\ answer = "" => step_index >= Len(plan))

\* The replanner answered a step with an empty plan: the run has ended with
\* no response set and run_agent returned its default.
C6_Witness ==
    /\ apc = "returned"
    /\ response = Unset
    /\ answer = DefaultAnswer
    /\ Len(past_steps) >= 1

\* C7 (as stated): when every executor invocation raises, step_index never
\* goes back, and the run ends with a fallback response.
C7_FailForwardNeverGoesBack ==
    /\ [][ExecutorErrors' = execCalls' => step_index' >= step_index]_vars
    /\ [](apc = "returned" /\ execCalls >= 1 /\ ExecutorErrors = execCalls
            => IsFallback(answer))

\* C7 (amended): every executor invocation, raising or not, advances
\* step_index by exactly one and adds one entry to past_steps, and a raise
\* logs one error; step_index goes back only when the replanner replaces
\* the plan, which resets it to 0.  When every invocation raises the run
\* still ends within MAX_ITERATIONS invocations, without the recursion
\* limit being hit, with a fallback, a replanner Response or the default.
C7_FailForward ==
    /\ [][/\ execCalls' # execCalls =>
               /\ execCalls' = execCalls + 1
               /\ step_index' = step_index + 1
               /\ Len(past_steps') = Len(past_steps) + 1
               /\ Len(error_log') <= Len(error_log) + 1
          /\ step_index' < step_index =>
               /\ apc = "replan"
               /\ step_index' = 0
               /\ execCalls' = execCalls]_vars
    /\ [](apc = "returned" /\ ExecutorErrors = execCalls =>
            /\ execCalls <= MAX_ITERATIONS
            /\ \/ IsFallback(answer)
               \/ answer \in LLMTexts
               \/ answer = DefaultAnswer
               \/ answer = PlanErrorText /\ execCalls = 0)

\* Every one of MAX_ITERATIONS executor invocations raised, and the run
\* ended with the fallback of the iteration cap.
C7_Witness ==
    /\ apc = "returned"
    /\ execCalls = MAX_ITERATIONS
    /\ ExecutorErrors = MAX_ITERATIONS
    /\ IsFallback(answer)

\* The replan node runs and the replanner returns Act = Response { text }:
\* the response, unset so far, becomes the text.
ReplannerResponds ==
    /\ replan_step
    /\ response = Unset
    /\ response' \in LLMTexts

\* C20: whenever the replanner returns a Response, whatever its text and
\* whether or not steps of the plan remain, the graph goes to END with the
\* text as the response, and the executor is not invoked again.
C20_ResponseEndsTheRun ==
    /\ [][ReplannerResponds => apc' = END]_vars
    /\ [][(response \in LLMTexts) => UNCHANGED execCalls]_vars

\* The replan node is entered with len(past_steps) >= MAX_ITERATIONS.
ReplanAtTheCap ==
    /\ replan_step
    /\ steps < recursion_limit
    /\ Len(past_steps) >= MAX_ITERATIONS

\* The cap notice followed by the listing of n steps and of the errors.
CapFallback(n, errors) ==
    "! " \o CapReason \o " | steps: " \o ToString(n)
         \o " | errors: " \o ToString(Len(errors))

\* C21: a replan node entered with len(past_steps) >= MAX_ITERATIONS makes
\* no LLM call, sets the response to the fallback built from past_steps and
\* the errors, and leads to END.  Every run returns; a run in which the
\* replanner's LLM was called and always returned a plan of one step
\* returns after exactly MAX_ITERATIONS executor invocations, with the cap
\* notice followed by the listing of the MAX_ITERATIONS past steps.
C21_CapEndsTheRunWithAFallback ==
    /\ [][ReplanAtTheCap
            => /\ llmCalls' = llmCalls
               /\ response' = CapFallback(Len(past_steps), error_log)
               /\ UNCHANGED <<plan, step_index, past_steps, error_log>>
               /\ apc' = END]_vars
    /\ <>(apc = "returned")
    /\ [](apc = "returned" /\ llmCalls.one_step /\ llmCalls.replanner >= 1
            => /\ execCalls = MAX_ITERATIONS
               /\ Len(past_steps) = MAX_ITERATIONS
               /\ llmCalls.replanner = MAX_ITERATIONS - 1
               /\ answer = CapFallback(MAX_ITERATIONS, error_log))

\* A run whose replanner always returned a plan of one step has returned.
C21_Witness ==
    /\ apc = "returned"
    /\ llmCalls.one_step
    /\ llmCalls.replanner = MAX_ITERATIONS - 1
    /\ execCalls = MAX_ITERATIONS
    /\ answer = CapFallback(MAX_ITERATIONS, error_log)

\* The nodes of the graph.
Nodes == {"planner", "agent", "replan"}

\* C22: the nodes of one run execute one at a time, one per step of the
\* graph: the planner runs first and is never entered again, the agent
\* (executor) node is followed by the replan node, the replan node by the
\* agent node or the end, and every executor invocation is a step from the
\* agent node to the replan node, so that a replanner run lies between any
\* two executor invocations.
C22_NodesRunSerially ==
    /\ [](apc \in Nodes \cup {END, "returned"})
    /\ [](apc = "planner" <=> steps = 0)
    /\ [](apc = "agent" => steps % 2 = 1)
    /\ [](apc = "replan" => steps % 2 = 0)
    /\ [][apc' # "planner"]_vars
    /\ [][/\ apc = "planner" => apc' \in {"agent", END}
          /\ apc = "agent" => apc' = "replan"
          /\ apc = "replan" => apc' \in {"agent", END}
          /\ apc = END => apc' = "returned"
          /\ apc \in Nodes <=> steps' = steps + 1
          /\ apc \notin Nodes => steps' = steps]_vars
    /\ [][execCalls' # execCalls
            => /\ execCalls' = execCalls + 1
               /\ apc = "agent"
               /\ apc' = "replan"]_vars

\* A run of planner, executor, replanner, executor, replanner has returned.
C22_Witness ==
    /\ apc = "returned"
    /\ execCalls = 2
    /\ llmCalls.replanner = 2
    /\ steps = 5

\* C23: step_index never exceeds len(plan); an executor invocation, whether
\* it succeeds or raises, moves step_index forward by one from an index
\* below len(plan), and a replanner Plan, of any length, sets it to 0.
C23_StepIndexWithinPlan ==
    /\ [](step_index \in 0..Len(plan))
    /\ [][execCalls' # execCalls
            => /\ step_index < Len(plan)
               /\ step_index' = step_index + 1
               /\ plan' = plan]_vars
    /\ [][(apc = "replan" /\ plan' # plan) => step_index' = 0]_vars

\* Both steps of a plan were executed, the second one failing, and the
\* replanner has replaced the plan by the empty plan.
C23_Witness ==
    /\ execCalls = 2
    /\ Len(error_log) = 1
    /\ error_log[1] = "executor"
    /\ llmCalls.replanner = 2
    /\ plan = <<>>
    /\ step_index = 0
    /\ apc = END

\* C27: whatever the planner, the executor and the replanner do, the graph
\* runs at most 2 * MAX_ITERATIONS + 1 nodes, which is below the backstop
\* of 2 * MAX_ITERATIONS + 10; GraphRecursionError is never raised, so
\* run_agent never returns its notice; and every run returns.
C27_BackstopIsNeverReached ==
    /\ [](steps <= 2 * MAX_ITERATIONS + 1)
    /\ [](steps < 2 * MAX_ITERATIONS + 10)
    /\ [](answer # RecursionText)
    /\ [][(apc \in Nodes) => apc' # "returned"]_vars
    /\ <>(apc = "returned")

\* The longest run: the planner and MAX_ITERATIONS rounds of executor and
\* replanner, ended by the iteration guard.
C27_Witness ==
    /\ apc = "returned"
    /\ steps = 2 * MAX_ITERATIONS + 1
    /\ execCalls = MAX_ITERATIONS
    /\ answer = CapFallback(MAX_ITERATIONS, error_log)
    /\ ~llmCalls.one_step

(***************************************************************************)
(*        Properties of the middleware, the dispatcher and the recorder    *)
(***************************************************************************)

\* C1: a data_agent call arriving on a connection opened with ?db=x runs
\* with destination x, whatever other connections were opened with, and
\* however connects and requests interleave.
C1_RequestRunsWithItsDestination ==
    \A c \in Conns :
        (req[c].pc = "run_agent" /\ conns[c].db # NoDb)
            => req[c].db_key = conns[c].db

\* The open UserSessionLog rows of a (client_ip, destination_name) key.
OpenSessions(ip, db) ==
    {s \in sessions : s.client_ip = ip /\ s.db_key = db /\ s.open}

\* C8: at most one open UserSessionLog exists per (client_ip,
\* destination_name), and a key with live /sse connections (one, or two
\* duplicates) has exactly one.
C8_OneSessionPerKey ==
    /\ \A ip \in ClientIps, db \in DbKeys :
          Cardinality(OpenSessions(ip, db)) <= 1
    /\ \A c \in Conns :
          (conns[c].open /\ conns[c].db # NoDb)
              => Cardinality(OpenSessions(conns[c].ip, conns[c].db)) = 1

\* C9: when a connection disconnects, the session of its (client_ip,
\* destination_name) stays open if a duplicate connection is still live,
\* and is closed if it was the last one.
C9_ClosedWithLastDisconnect ==
    [][\A c \in Conns :
         (conns[c].open /\ ~conns'[c].open /\ conns[c].db # NoDb) =>
            LET ip == conns[c].ip
                db == conns[c].db
                live == {d \in Conns : /\ conns'[d].open
                                       /\ conns'[d].ip = ip
                                       /\ conns'[d].db = db}
                mine == {s \in sessions' : s.client_ip = ip /\ s.db_key = db}
            IN  IF live = {}
                THEN mine # {} /\ \A s \in mine : ~s.open
                ELSE \E s \in mine : s.open]_vars

\* The AgentExecutionLog rows of request rid.
ExecutionsOf(rid) ==
    {r \in BagToSet(agent_execution_log) : r.request_id = rid}

\* C10 (as stated): every data_agent invocation with a non-empty query has,
\* when it returns, written exactly one AgentExecutionLog, whose
\* tool_call_count is the number of ToolCallLog rows with its request_id.
C10_ExactlyOneExecutionLog ==
    \A c \in Conns :
        (req[c].pc = "done" /\ req[c].query # "") =>
            /\ req[c].request_id # NoRequestId
            /\ \E r \in ExecutionsOf(req[c].request_id) :
                  /\ ExecutionsOf(req[c].request_id) = {r}
                  /\ CopiesIn(r, agent_execution_log) = 1
                  /\ r.tool_call_count =
                         CopiesIn(req[c].request_id, tool_call_log)

\* C10 (amended): a data_agent invocation gets a request id, and can write
\* records, only when the recorder is enabled, its query is not empty and
\* a destination is bound.  Such an invocation writes no AgentExecutionLog
\* before run_agent is over and at most one after it, exactly one unless
\* the write fails; when the count of its tool calls was read from the
\* ToolCallLog table, the record's tool_call_count is the number of
\* ToolCallLog rows with its request_id.
C10_OneExecutionLogWhenRecorded ==
    /\ \A r \in BagToSet(agent_execution_log) :
          /\ r.request_id # NoRequestId
          /\ ExecutionsOf(r.request_id) = {r}
          /\ CopiesIn(r, agent_execution_log) = 1
          /\ r.counted =>
                r.tool_call_count = CopiesIn(r.request_id, tool_call_log)
    /\ \A c \in Conns :
          /\ req[c].request_id # NoRequestId =>
                /\ ANALYTICS_ENABLED
                /\ req[c].query # ""
                /\ req[c].db_key \notin {"", DefaultKey}
          /\ (req[c].pc = "done" /\ ANALYTICS_ENABLED
                 /\ req[c].result = "answer") =>
                /\ req[c].request_id # NoRequestId
                /\ (ExecutionsOf(req[c].request_id) = {})
                       <=> req[c].write_failed
          /\ req[c].pc = "run_agent" =>
                ExecutionsOf(req[c].request_id) = {}

\* An invocation that called a tool has returned while another one is
\* under way; its one AgentExecutionLog counts the ToolCallLog rows of its
\* request_id, not the other one's.
C10_Witness ==
    \E c, d \in Conns :
        /\ req[c].pc = "done"
        /\ req[c].query # ""
        /\ CopiesIn(req[c].request_id, tool_call_log) = MaxToolCalls
        /\ \E r \in ExecutionsOf(req[c].request_id) :
              r.counted /\ r.tool_call_count = MaxToolCalls
        /\ req[d].pc = "run_agent"
        /\ CopiesIn(req[d].request_id, tool_call_log) >= 1

C12_CancelledRequestIsLogged ==
    [][\A c \in Conns :
         (/\ req[c].pc = "run_agent"
          /\ conns[c].open /\ ~conns'[c].open
          /\ ANALYTICS_ENABLED /\ req[c].request_id # NoRequestId) =>
            /\ req'[c].pc \notin {"run_agent", "done"}
            /\ \E r \in BagToSet(agent_execution_log') :
                   r.request_id = req[c].request_id]_vars

\* C13: a data_agent call whose destination is absent, or is a name with
\* no active mapping, is answered with the missing-destination error
\* without the controller being run, and has no request id under which a
\* ToolCallLog or SQLQueryLog could be written.
C13_UnknownDestinationRejected ==
    \A c \in Conns :
        /\ req[c].pc = "run_agent" => req[c].db_key \in ActiveMappings
        /\ (req[c].pc = "done" /\ req[c].result = "no destination") =>
               /\ req[c].request_id = NoRequestId
               /\ CopiesIn(NoRequestId, tool_call_log) = 0

(***************************************************************************)
(*                 Properties of the db_mapping cache                      *)
(***************************************************************************)

\* C14: whenever get_db_config(name) returns a non-empty record, a hit or
\* a read-through miss, the row of name is active in the table at that
\* time.
C14_ReturnedRecordIsActive ==
    [][(\E name \in DbKeys : GetConfig(name)) =>
          (got'.config # NoConfig => got'.name \in db_mapping_table)]_vars

\* C15: the cache changes only by load_db_mapping binding it to a whole
\* new map: a reader sees the map of the last load or that of the next,
\* and no write changes the map in place.
C15_CacheIsReplaceOnly ==
    [][_db_mapping' # _db_mapping =>
          \E loaded \in BOOLEAN : load_db_mapping(loaded)]_vars


(***************************************************************************)
(*              Properties of the SQL validator and the SQL tool           *)
(***************************************************************************)

\* The first word of the text, after leading blanks, is the keyword of a
\* mutating or administrative statement.
IsMutating(t) == strip(t) # <<>> /\ strip(t)[1].text \in MutatingKeywords

\* C16: every statement that begins with a mutating or administrative
\* keyword (INSERT, UPDATE, DELETE, DROP, TRUNCATE, ALTER, CREATE, GRANT,
\* REVOKE, REPLACE, RENAME, MERGE), in upper, lower or mixed case, with or
\* without a leading blank and whatever follows the keyword, is rejected by
\* validate_sql in strict mode and in non-strict mode.
C16_MutatingStatementsRejected ==
    IsMutating(sql) => ~validate_sql(sql, TRUE) /\ ~validate_sql(sql, FALSE)

\* A mixed-case mutating statement with a leading blank was passed to the
\* tool, which returned the validator's rejection.
C16_Witness ==
    /\ qpc = "returned"
    /\ IsMutating(sql)
    /\ sql[1] = Blank
    /\ sql[2].case = "mixed"
    /\ Len(sql) = 2 + MaxRest
    /\ envelope.code_name = "SQL_VALIDATION_ERROR"


\* The step PrepareSql in which validation was run and failed.
ValidationFails ==
    /\ PrepareSql
    /\ strip(sql) # <<>>
    /\ sql_host # ""
    /\ ~validate_sql(strip(sql), TRUE)

\* C17: a text is passed to execute_query only when validate_sql in strict
\* mode returned ok for the (stripped) statement of the call; a call whose
\* validation fails returns the envelope of SQL_VALIDATION_ERROR in that
\* step, with no text sent and the registry (its entries, their last_used
\* times and the number of engines created) unchanged; such an envelope is
\* never returned otherwise, and a call of the SQL tool changes the registry
\* only in the step that runs a text that was sent.
C17_ExecutedOnlyAfterValidation ==
    /\ [](sent # <<>> => validate_sql(strip(sql), TRUE))
    /\ [](envelope.code_name = "SQL_VALIDATION_ERROR"
            => /\ envelope.code = 4002
               /\ qpc = "returned"
               /\ sent = <<>>
               /\ ~validate_sql(strip(sql), TRUE))
    /\ [][ValidationFails
            => /\ envelope' = format_error_response("SQL_VALIDATION_ERROR")
               /\ qpc' = "returned"
               /\ sent' = <<>>
               /\ UNCHANGED <<pools, engines, now>>]_vars
    /\ [][(qpc \in {"called", "querying"}
               /\ (pools' # pools \/ engines' # engines))
            => (qpc = "querying" /\ sent # <<>> /\ sent' = sent)]_vars

\* A SELECT that fails validation was returned as SQL_VALIDATION_ERROR with
\* the engine of its destination in the registry, not touched.
C17_Witness ==
    /\ qpc = "returned"
    /\ envelope = format_error_response("SQL_VALIDATION_ERROR")
    /\ strip(sql)[1].text = "SELECT"
    /\ sent = <<>>
    /\ Len(pools) = 1
    /\ pools[1].last_used = 0


\* C18 as stated: a text that is sent for the statement s (written without
\* surrounding blanks) and the limit k is s followed by " LIMIT k" when s
\* does not contain LIMIT, and s itself when it does.
C18_RunsStatementThenLimit ==
    sent # <<>> /\ limit # None /\ sql = strip(sql)
        => sent = IF ContainsLIMIT(sql) THEN sql
                  ELSE Append(sql, LimitClause(limit, "upper"))

\* The limit that is injected for the limit k of the call.
InjectedLimit(k) ==
    IF k = None THEN 100
    ELSE IF k < 1 THEN 1
    ELSE IF k > 10000 THEN 10000
    ELSE k

\* C18, amended: the text that is sent for the statement s and the limit k
\* is, when s without its surrounding blanks does not contain the letters
\* LIMIT (in any case, also inside a name), that text without its trailing
\* semicolons followed by " LIMIT n", where n is 100 when no limit was
\* passed, 1 when k < 1, 10000 when k > 10000 and k otherwise; when it
\* contains the letters LIMIT it is that text unchanged.  The injection
\* applied to a text that was sent, with any limit, changes nothing.
C18_RunsStatementThenClampedLimit ==
    sent # <<>>
        => /\ sent = IF \E i \in 1..Len(strip(sql)) :
                           strip(sql)[i].text \in {" LIMIT n", " LIMITS"}
                      THEN strip(sql)
                      ELSE rstrip_semicolons(strip(sql))
                               \o <<LimitClause(InjectedLimit(limit), "upper")>>
           /\ \A k \in Limits : InjectLimit(sent, k) = sent

\* A SELECT that ends with a semicolon was run for the limit 10001: the
\* semicolon was dropped and LIMIT 10000 appended.
C18_Witness ==
    /\ qpc = "returned"
    /\ envelope.success
    /\ limit = 10001
    /\ sql[Len(sql)] = Semicolon
    /\ sent[Len(sent)] = LimitClause(10000, "upper")
    /\ Len(sent) = Len(sql)


\* C19: every error a tool returns is the error envelope, which carries an
\* integer code and the code_name of that code.
C19_ErrorsCarryCodeAndName ==
    qpc = "returned" /\ ~envelope.success
        => /\ envelope.code_name \in DOMAIN ErrorCode
           /\ envelope.code = ErrorCode[envelope.code_name]


\* C24: every call of the SQL tool, made inside a request with the recorder
\* on, has written one ToolCallLog row and one SQLQueryLog row when it
\* returns, whatever it returns.
C24_EveryCallIsRecorded ==
    [][((PrepareSql \/ RunQuery) /\ qpc' = "returned")
        => emitted' = [ToolCallLog |-> 1, SQLQueryLog |-> 1]]_vars

\* C30: a load of the mappings that fails (at startup or on refresh) leaves
\* the cache as it was: the destinations cached before it are still cached
\* after it.
C30_FailedLoadKeepsTheCache ==
    [][load_db_mapping(FALSE) => _db_mapping' = _db_mapping]_vars

=============================================================================
